---- MODULE Spec2Model ----
(***************************************************************************)
(* Model of the tick-queue crate (src/src/lib.rs): Queue<T>, a VecDeque of *)
(* ItemInfo { item, tick_id } together with expected_write_id, the TickId  *)
(* the next push must carry.                                               *)
(*                                                                         *)
(* A TickId wraps a u32.  TLC's integers stop at 2^31 - 1, so a TickId v   *)
(* is held as its two 16-bit halves [hi |-> v \div 2^16, lo |-> v % 2^16]; *)
(* order, equality and the increment are computed on the halves exactly as *)
(* the u32 operations compute them on v.                                   *)
(***************************************************************************)
EXTENDS Integers, Sequences, FiniteSets, TLC

VARIABLES
    items,              \* Queue::items, front first
    expected_write_id,  \* Queue::expected_write_id
    overflow_checks,    \* the build: TRUE = u32 `+=` panics on overflow, FALSE = it wraps
    panicked,           \* TRUE once an operation has panicked (the program is over)
    call,               \* the last operation called, with its arguments
    ret,                \* what that operation returned
    old,                \* the queue as it was when that operation was called
    base,               \* the argument of the last new/clear (zero for default)
    pushes              \* number of pushes that returned Ok since that new/clear

vars == <<items, expected_write_id, overflow_checks, panicked, call, ret, old, base, pushes>>

---------------------------------------------------------------------------
(* Bounds of the model *)

\* ticks modelled: the Span+1 lowest and the Span+1 highest u32 values
Span == 2
\* pushes are not explored beyond this queue length
MaxQueue == 3

---------------------------------------------------------------------------
(* TickId (u32) *)

Half == 65536

TickId(h, l) == [hi |-> h, lo |-> l]

TICK_ID_MAX == TickId(Half - 1, Half - 1)

TickZero == TickId(0, 0)

\* u32 `<` and `>=` on the wrapped values
TickLt(a, b) == a.hi < b.hi \/ (a.hi = b.hi /\ a.lo < b.lo)

TickGe(a, b) == ~TickLt(a, b)

\* `+= 1` in a build without overflow checks: u32 wrapping increment
WrappingInc(t) ==
    IF t.lo < Half - 1 THEN TickId(t.hi, t.lo + 1)
    ELSE IF t.hi < Half - 1 THEN TickId(t.hi + 1, 0)
    ELSE TickZero

\* b is the integer a + 1 (there is none for a = u32::MAX)
IsNext(a, b) == a # TICK_ID_MAX /\ b = WrappingInc(a)

\* b is the integer a + n (there is none beyond u32::MAX)
RECURSIVE IsPlus(_, _, _)
IsPlus(a, n, b) ==
    IF n = 0 THEN a = b
    ELSE a # TICK_ID_MAX /\ IsPlus(WrappingInc(a), n - 1, b)

RECURSIVE WrappingAdd(_, _)
WrappingAdd(t, n) == IF n = 0 THEN t ELSE WrappingAdd(WrappingInc(t), n - 1)

LowTicks == { TickId(0, l) : l \in 0..Span }

HighTicks == { TickId(Half - 1, l) : l \in (Half - 1 - Span)..(Half - 1) }

Ticks == LowTicks \cup HighTicks

Values == {"a", "b"}

Counts == 0..(MaxQueue + 1)

Min(a, b) == IF a <= b THEN a ELSE b

---------------------------------------------------------------------------
(* The queue's methods, as functions of the queue q = [items, expected_write_id] *)

ItemInfo(item, tick_id) == [item |-> item, tick_id |-> tick_id]

Queue(its, e) == [items |-> its, expected_write_id |-> e]

None == [kind |-> "None"]

Some(v) == [kind |-> "Some", value |-> v]

new(tick_id) == Queue(<<>>, tick_id)

clear(q, initial_tick_id) == Queue(<<>>, initial_tick_id)

\* push_back, then `expected_write_id += 1`: the increment of u32::MAX panics
\* (after the push_back) with overflow checks and wraps to 0 without them
push_internal(q, item, checks) ==
    LET pushed == Append(q.items, ItemInfo(item, q.expected_write_id)) IN
    IF q.expected_write_id = TICK_ID_MAX /\ checks
    THEN [q |-> Queue(pushed, q.expected_write_id), panicked |-> TRUE]
    ELSE [q |-> Queue(pushed, WrappingInc(q.expected_write_id)), panicked |-> FALSE]

\* mutant of push: `expected_write_id < tick_id` for `!=`, so that a tick
\* below the expected one is accepted
push_accepts_older(q, tick_id, item, checks) ==
    IF TickLt(q.expected_write_id, tick_id)
    THEN [q |-> q, panicked |-> FALSE,
          ret |-> [kind |-> "Err", expected |-> q.expected_write_id, encountered |-> tick_id]]
    ELSE LET r == push_internal(q, item, checks) IN
         [q |-> r.q, panicked |-> r.panicked,
          ret |-> IF r.panicked THEN [kind |-> "Panic"] ELSE [kind |-> "Ok"]]

push(q, tick_id, item, checks) ==
    IF q.expected_write_id # tick_id
    THEN [q |-> q, panicked |-> FALSE,
          ret |-> [kind |-> "Err", expected |-> q.expected_write_id, encountered |-> tick_id]]
    ELSE LET r == push_internal(q, item, checks) IN
         [q |-> r.q, panicked |-> r.panicked,
          ret |-> IF r.panicked THEN [kind |-> "Panic"] ELSE [kind |-> "Ok"]]

\* mutant of pop: the write position is rewound to the popped tick
pop_rewinds(q) ==
    IF q.items = <<>>
    THEN [q |-> q, ret |-> None]
    ELSE [q |-> Queue(Tail(q.items), Head(q.items).tick_id), ret |-> Some(Head(q.items))]

\* mutant of pop: pop_back for pop_front
pop_from_back(q) ==
    IF q.items = <<>>
    THEN [q |-> q, ret |-> None]
    ELSE [q |-> Queue(SubSeq(q.items, 1, Len(q.items) - 1), q.expected_write_id),
          ret |-> Some(q.items[Len(q.items)])]

pop(q) ==
    IF q.items = <<>>
    THEN [q |-> q, ret |-> None]
    ELSE [q |-> Queue(Tail(q.items), q.expected_write_id), ret |-> Some(Head(q.items))]

\* mutant of discard_up_to_items: the comparison is reversed
RECURSIVE discard_up_to_items_reversed(_, _)
discard_up_to_items_reversed(its, tick_id) ==
    IF its = <<>> THEN its
    ELSE IF TickLt(Head(its).tick_id, tick_id) THEN its
    ELSE discard_up_to_items_reversed(Tail(its), tick_id)

RECURSIVE discard_up_to_items(_, _)
discard_up_to_items(its, tick_id) ==
    IF its = <<>> THEN its
    ELSE IF TickGe(Head(its).tick_id, tick_id) THEN its
    ELSE discard_up_to_items(Tail(its), tick_id)

\* mutant of discard_up_to: the write position is moved up to tick_id
discard_up_to_advances(q, tick_id) ==
    Queue(discard_up_to_items(q.items, tick_id),
          IF TickLt(q.expected_write_id, tick_id) THEN tick_id ELSE q.expected_write_id)

discard_up_to(q, tick_id) == Queue(discard_up_to_items(q.items, tick_id), q.expected_write_id)

\* drain(..n): the items without the first n
Drain(its, n) == SubSeq(its, n + 1, Len(its))

\* mutant of discard_count: the emptying branch also resets the write position
discard_count_resets(q, count) ==
    IF count >= Len(q.items)
    THEN Queue(<<>>, TickZero)
    ELSE Queue(Drain(q.items, count), q.expected_write_id)

\* mutant of discard_count: drain(..=count) for drain(..count)
discard_count_inclusive(q, count) ==
    IF count >= Len(q.items)
    THEN Queue(<<>>, q.expected_write_id)
    ELSE Queue(Drain(q.items, count + 1), q.expected_write_id)

discard_count(q, count) ==
    IF count >= Len(q.items)
    THEN Queue(<<>>, q.expected_write_id)
    ELSE Queue(Drain(q.items, count), q.expected_write_id)

front_tick_id(q) == IF q.items = <<>> THEN None ELSE Some(Head(q.items).tick_id)

back_tick_id(q) == IF q.items = <<>> THEN None ELSE Some(q.items[Len(q.items)].tick_id)

\* mutant of take: count is clamped to len - 1
take_one_short(q, count) ==
    LET first_tick_id == front_tick_id(q) IN
    IF first_tick_id = None
    THEN [q |-> q, ret |-> None]
    ELSE LET n == Min(count, Len(q.items) - 1) IN
         [q |-> Queue(Drain(q.items, n), q.expected_write_id),
          ret |-> Some([tick_id |-> first_tick_id.value,
                        items |-> [i \in 1..n |-> q.items[i].item]])]

\* mutant of take: nothing to take is answered with None
take_none_on_zero(q, count) ==
    LET first_tick_id == front_tick_id(q) IN
    IF first_tick_id = None \/ count = 0
    THEN [q |-> q, ret |-> None]
    ELSE LET n == Min(count, Len(q.items)) IN
         [q |-> Queue(Drain(q.items, n), q.expected_write_id),
          ret |-> Some([tick_id |-> first_tick_id.value,
                        items |-> [i \in 1..n |-> q.items[i].item]])]

take(q, count) ==
    LET first_tick_id == front_tick_id(q) IN
    IF first_tick_id = None
    THEN [q |-> q, ret |-> None]
    ELSE LET n == Min(count, Len(q.items)) IN
         [q |-> Queue(Drain(q.items, n), q.expected_write_id),
          ret |-> Some([tick_id |-> first_tick_id.value,
                        items |-> [i \in 1..n |-> q.items[i].item]])]

\* the read-only methods

len(q) == Len(q.items)

is_empty(q) == q.items = <<>>

expected_write_tick_id(q) == q.expected_write_id

\* VecDeque::get: index 0 is the front
debug_get(q, index) == IF index < Len(q.items) THEN Some(q.items[index + 1]) ELSE None

\* VecDeque::as_slices: the two runs of the ring buffer, of which the first
\* holds the k front entries (k depends on where the ring wraps)
as_slices(its, k) == <<SubSeq(its, 1, k), SubSeq(its, k + 1, Len(its))>>

\* mutant of to_vec: the two slices are chained back first
to_vec_back_first(q, k) ==
    LET slices == as_slices(q.items, k)
        chain == slices[2] \o slices[1] IN
    [i \in 1..Len(chain) |-> chain[i].item]

to_vec(q, k) ==
    LET slices == as_slices(q.items, k)
        chain == slices[1] \o slices[2] IN
    [i \in 1..Len(chain) |-> chain[i].item]

\* what self.items.iter() yields until it ends
iter(q) == q.items

\* what self.items.into_iter() yields until it ends
into_iter(q) == q.items

FromIndexIterator(deque, start_index) ==
    [deque |-> deque, start_index |-> start_index, current_index |-> start_index]

\* mutant of FromIndexIterator_next: the index is advanced before the read
FromIndexIterator_next_skips(it) ==
    IF it.current_index + 1 >= Len(it.deque)
    THEN [it |-> it, ret |-> None]
    ELSE [it |-> [it EXCEPT !.current_index = @ + 1],
          ret |-> Some(it.deque[it.current_index + 2])]

FromIndexIterator_next(it) ==
    IF it.current_index >= Len(it.deque)
    THEN [it |-> it, ret |-> None]
    ELSE [it |-> [it EXCEPT !.current_index = @ + 1],
          ret |-> Some(it.deque[it.current_index + 1])]

iter_index(q, start_index) == FromIndexIterator(q.items, start_index)

\* next() called until it returns None: the entries yielded, in order
RECURSIVE Exhaust(_)
Exhaust(it) ==
    LET r == FromIndexIterator_next(it) IN
    IF r.ret = None THEN <<>> ELSE <<r.ret.value>> \o Exhaust(r.it)

---------------------------------------------------------------------------
(* The state machine: one action per public operation *)

Self == Queue(items, expected_write_id)

Init ==
    /\ \E t \in Ticks :
         /\ items = new(t).items
         /\ expected_write_id = new(t).expected_write_id
         /\ base = t
         /\ call = [op |-> "new", tick_id |-> t]
    /\ overflow_checks \in BOOLEAN
    /\ panicked = FALSE
    /\ ret = None
    /\ old = Queue(<<>>, TickZero)
    /\ pushes = 0

\* no operation follows a panic, nor into_iter, which consumes the queue
Alive == ~panicked /\ call.op # "into_iter"

Value(v) == [kind |-> "Value", value |-> v]

Indexes == 0..(MaxQueue + 1)

Becomes(q) ==
    /\ items' = q.items
    /\ expected_write_id' = q.expected_write_id
    /\ old' = Self
    /\ UNCHANGED overflow_checks

Push ==
    /\ Alive
    /\ \E t \in Ticks, v \in Values :
         LET r == push(Self, t, v, overflow_checks) IN
         /\ t = expected_write_id =>
              /\ Len(items) < MaxQueue
              /\ WrappingInc(expected_write_id) \in Ticks
         /\ Becomes(r.q)
         /\ panicked' = r.panicked
         /\ call' = [op |-> "push", tick_id |-> t, item |-> v]
         /\ ret' = r.ret
         /\ pushes' = IF r.ret.kind = "Ok" THEN pushes + 1 ELSE pushes
         /\ UNCHANGED base

Pop ==
    /\ Alive
    /\ LET r == pop(Self) IN
         /\ Becomes(r.q)
         /\ call' = [op |-> "pop"]
         /\ ret' = r.ret
    /\ UNCHANGED <<panicked, base, pushes>>

Take ==
    /\ Alive
    /\ \E c \in Counts :
         LET r == take(Self, c) IN
         /\ Becomes(r.q)
         /\ call' = [op |-> "take", count |-> c]
         /\ ret' = r.ret
    /\ UNCHANGED <<panicked, base, pushes>>

DiscardUpTo ==
    /\ Alive
    /\ \E t \in Ticks :
         /\ Becomes(discard_up_to(Self, t))
         /\ call' = [op |-> "discard_up_to", tick_id |-> t]
         /\ ret' = None
    /\ UNCHANGED <<panicked, base, pushes>>

DiscardCount ==
    /\ Alive
    /\ \E c \in Counts :
         /\ Becomes(discard_count(Self, c))
         /\ call' = [op |-> "discard_count", count |-> c]
         /\ ret' = None
    /\ UNCHANGED <<panicked, base, pushes>>

Clear ==
    /\ Alive
    /\ \E t \in Ticks :
         /\ Becomes(clear(Self, t))
         /\ call' = [op |-> "clear", tick_id |-> t]
         /\ ret' = None
         /\ base' = t
         /\ pushes' = 0
    /\ UNCHANGED panicked

\* a method taking &self: the queue is left as it is
Reads(c, r) ==
    /\ Alive
    /\ Becomes(Self)
    /\ call' = c
    /\ ret' = r
    /\ UNCHANGED <<panicked, base, pushes>>

FrontTickId == Reads([op |-> "front_tick_id"], front_tick_id(Self))

BackTickId == Reads([op |-> "back_tick_id"], back_tick_id(Self))

ExpectedWriteTickId == Reads([op |-> "expected_write_tick_id"], Value(expected_write_tick_id(Self)))

LenOf == Reads([op |-> "len"], Value(len(Self)))

IsEmpty == Reads([op |-> "is_empty"], Value(is_empty(Self)))

DebugGet == \E i \in Indexes : Reads([op |-> "debug_get", index |-> i], debug_get(Self, i))

ToVec == \E k \in 0..Len(items) : Reads([op |-> "to_vec"], Value(to_vec(Self, k)))

Iter == Reads([op |-> "iter"], Value(iter(Self)))

IterIndex ==
    \E i \in Indexes :
        Reads([op |-> "iter_index", start_index |-> i], Value(Exhaust(iter_index(Self, i))))

\* into_iter takes self: Alive is false from here on
IntoIter == Reads([op |-> "into_iter"], Value(into_iter(Self)))

Next ==
    \/ Push \/ Pop \/ Take \/ DiscardUpTo \/ DiscardCount \/ Clear
    \/ FrontTickId \/ BackTickId \/ ExpectedWriteTickId \/ LenOf \/ IsEmpty
    \/ DebugGet \/ ToVec \/ Iter \/ IterIndex \/ IntoIter

Spec == Init /\ [][Next]_vars

---------------------------------------------------------------------------
(* Helpers of the properties *)

IsConsuming == call.op \in {"pop", "take", "discard_up_to", "discard_count"}

Returned == ~panicked

\* the items of the first n entries, front first
FirstItems(its, n) == [i \in 1..n |-> its[i].item]

\* k calls of pop in a row: the queue afterwards and the entries it returned
RECURSIVE PopTimes(_, _)
PopTimes(q, k) ==
    IF k = 0 THEN [q |-> q, popped |-> <<>>]
    ELSE LET r == pop(q)
             rest == PopTimes(r.q, k - 1) IN
         [q |-> rest.q,
          popped |-> IF r.ret.kind = "Some" THEN <<r.ret.value>> \o rest.popped
                     ELSE rest.popped]

---------------------------------------------------------------------------
(* C1 *)

\* C1 (continuity invariant): in every reachable state the stored entries,
\* read front to back, have strictly ascending ticks, each exactly the
\* previous entry's tick plus 1.
\* Violated: new(u32::MAX), push(u32::MAX, a) wraps expected_write_id to 0
\* in a build without overflow checks, and push(0, b) then stores tick 0
\* behind tick u32::MAX.
C1_Continuity ==
    \A i \in 1..(Len(items) - 1) : IsNext(items[i].tick_id, items[i + 1].tick_id)

---------------------------------------------------------------------------
(* C2 *)

\* C2 (rejection law): push(t, v) returns Err(WrongTickId{expected:
\* expected_write_id, encountered: t}) if and only if t differs from
\* expected_write_id, and a failed push leaves the entries, the length and
\* expected_write_id as they were.
C2_RejectionLaw ==
    call.op = "push" =>
        /\ (ret.kind = "Err") <=> (call.tick_id # old.expected_write_id)
        /\ ret.kind = "Err" =>
             /\ ret.expected = old.expected_write_id
             /\ ret.encountered = call.tick_id
             /\ items = old.items
             /\ Len(items) = Len(old.items)
             /\ expected_write_id = old.expected_write_id

C2_Witness ==
    /\ call.op = "push"
    /\ ret.kind = "Err"
    /\ items # <<>>
    /\ TickLt(call.tick_id, expected_write_id)

---------------------------------------------------------------------------
(* C3 *)

\* C3 as stated (invariant 2): after every public operation, a non-empty
\* queue has expected_write_id = back tick + 1, and an empty queue has
\* expected_write_id = the argument of the most recent clear, or of new.
\* The + 1 is read here as the u32 increment the code performs and the
\* operations as those that return, the reading most favourable to the
\* claim; it is violated all the same: new(t), push(t, a), pop() leaves the
\* queue empty with expected_write_id = t + 1, not t.
C3_AsStated ==
    Returned =>
        IF items # <<>>
        THEN expected_write_id = WrappingInc(back_tick_id(Self).value)
        ELSE expected_write_id = base

\* C3 as amended: after every public operation that returns, a non-empty
\* queue has expected_write_id = back tick + 1 modulo 2^32, and an empty
\* queue has expected_write_id = the argument of the most recent clear (or
\* of new) plus the number of pushes that returned Ok since, modulo 2^32.
C3_ExpectedTick ==
    Returned =>
        IF items # <<>>
        THEN expected_write_id = WrappingInc(back_tick_id(Self).value)
        ELSE expected_write_id = WrappingAdd(base, pushes)

C3_Witness ==
    /\ Returned
    /\ IsConsuming
    /\ old.items # <<>>
    /\ items = <<>>
    /\ pushes >= 2
    /\ expected_write_id # base

---------------------------------------------------------------------------
(* C4 *)

\* C4 (successful push): when tick = expected_write_id, push(tick, item)
\* returns Ok, keeps the stored entries in place, appends exactly one entry
\* carrying the caller's tick and item, increases len by 1 and sets
\* expected_write_id to tick + 1.
\* The + 1 is read as the u32 increment the code performs, the reading
\* most favourable to the claim.
\* Violated: new(u32::MAX), push(u32::MAX, a) does not return Ok in a build
\* with overflow checks: it panics after the push_back, with
\* expected_write_id still u32::MAX.
C4_PushSuccess ==
    (call.op = "push" /\ call.tick_id = old.expected_write_id) =>
        /\ ret.kind = "Ok"
        /\ items = Append(old.items, ItemInfo(call.item, call.tick_id))
        /\ Len(items) = Len(old.items) + 1
        /\ expected_write_id = WrappingInc(call.tick_id)

---------------------------------------------------------------------------
(* C5 *)

\* C5 (FIFO law): pop on a non-empty queue removes and returns the front
\* entry, which has the lowest stored tick, and leaves the others unchanged;
\* pop on an empty queue returns None; a pop directly after a pop returns
\* the entry whose tick is exactly one more than the previous one.
\* Violated: with ticks u32::MAX and 0 stored in that order (see C1) pop
\* returns tick u32::MAX while tick 0 is stored, and the next pop returns 0.
C5_Fifo ==
    call.op = "pop" =>
        IF old.items = <<>>
        THEN ret = None /\ items = <<>>
        ELSE /\ ret = Some(Head(old.items))
             /\ items = Tail(old.items)
             /\ \A i \in 1..Len(old.items) :
                    ~TickLt(old.items[i].tick_id, ret.value.tick_id)
             /\ pop(Self).ret.kind = "Some" =>
                    /\ IsNext(ret.value.tick_id, pop(Self).ret.value.tick_id)
                    /\ pop(Self).ret.value = old.items[2]

---------------------------------------------------------------------------
(* C6 *)

\* C6 (sequence position survives consumption): pop, take, discard_up_to
\* and discard_count never change expected_write_id, whatever the argument
\* and the queue, also when they empty it; the one tick push accepts
\* afterwards is the one it accepted before the call.
C6_ConsumptionKeepsExpected ==
    IsConsuming =>
        /\ expected_write_id = old.expected_write_id
        /\ \A t \in Ticks :
              (push(Self, t, "a", overflow_checks).ret.kind = "Err")
                  <=> (t # old.expected_write_id)

C6_Witness ==
    /\ IsConsuming
    /\ call.op # "pop"
    /\ Len(old.items) >= 2
    /\ items = <<>>
    /\ pushes >= 2

---------------------------------------------------------------------------
(* C7 *)

\* C7 (discard monotonicity): after discard_up_to(t) every remaining entry
\* has tick >= t, every entry stored before with tick >= t is still stored
\* in the same order, and the entries removed are exactly those with
\* tick < t.
\* Violated: with ticks u32::MAX and 0 stored in that order (see C1),
\* discard_up_to(1) stops at the front entry and keeps tick 0.
C7_DiscardMonotonicity ==
    call.op = "discard_up_to" =>
        /\ \A i \in 1..Len(items) : TickGe(items[i].tick_id, call.tick_id)
        /\ items = SelectSeq(old.items, LAMBDA e : TickGe(e.tick_id, call.tick_id))

---------------------------------------------------------------------------
(* C8 *)

\* what k calls of pop hand back, collected: the queue afterwards, the
\* popped items in order and the tick of the first popped entry (none when
\* nothing was popped)
CollectPops(q, k) ==
    LET r == PopTimes(q, k) IN
    [q |-> r.q,
     items |-> [i \in 1..Len(r.popped) |-> r.popped[i].item],
     tick_id |-> IF r.popped = <<>> THEN None ELSE Some(r.popped[1].tick_id)]

\* C8 as stated (take equivalence): for every k <= len, take(k) leaves the
\* queue as k calls of pop leave it, returns the popped items in the same
\* order, and returns the tick of the first popped entry.
\* Violated: take(0) on a non-empty queue returns a tick, the front
\* entry's, although no entry is popped.
C8_AsStated ==
    (call.op = "take" /\ call.count <= Len(old.items)) =>
        LET p == CollectPops(old, call.count) IN
        /\ Self = p.q
        /\ (IF ret = None THEN <<>> ELSE ret.value.items) = p.items
        /\ (IF ret = None THEN None ELSE Some(ret.value.tick_id)) = p.tick_id

\* C8 as amended: for every k with 1 <= k <= len, take(k) leaves the queue
\* as k calls of pop leave it and returns Some((tick of the first popped
\* entry, the popped items in the same order)); for k = 0 the queue is
\* left unchanged as zero pops leave it and no item is returned, but on a
\* non-empty queue take(0) still returns the front entry's tick.
C8_TakeEquivalence ==
    (call.op = "take" /\ call.count <= Len(old.items)) =>
        LET p == CollectPops(old, call.count) IN
        /\ Self = p.q
        /\ (IF ret = None THEN <<>> ELSE ret.value.items) = p.items
        /\ call.count >= 1 => ret = Some([tick_id |-> p.tick_id.value, items |-> p.items])
        /\ call.count = 0 =>
             ret = IF old.items = <<>> THEN None
                   ELSE Some([tick_id |-> Head(old.items).tick_id, items |-> <<>>])

C8_Witness ==
    /\ call.op = "take"
    /\ call.count = 2
    /\ Len(old.items) = 3
    /\ old.items[1].item # old.items[2].item

---------------------------------------------------------------------------
(* C9 *)

\* C9 as stated: take(count) removes exactly min(count, len) entries from
\* the front and leaves the rest unchanged; on a non-empty queue it returns
\* Some((tick of the first removed entry, the removed items front to
\* back)); on an empty queue it returns None and changes nothing.
\* Violated: take(0) on a non-empty queue removes nothing, so there is no
\* first removed entry, and returns the tick of the front entry it kept.
C9_AsStated ==
    call.op = "take" =>
        LET n == Min(call.count, Len(old.items))
            removed == SubSeq(old.items, 1, n) IN
        /\ Self = Queue(Drain(old.items, n), old.expected_write_id)
        /\ IF old.items = <<>>
           THEN ret = None /\ Self = old
           ELSE /\ ret.kind = "Some"
                /\ removed # <<>>
                /\ ret.value.tick_id = removed[1].tick_id
                /\ ret.value.items = FirstItems(removed, n)

\* C9 as amended: take(count) removes exactly min(count, len) entries from
\* the front and leaves the rest unchanged; on a non-empty queue it returns
\* Some((tick of the entry that was at the front before the call, the
\* removed items front to back)), that entry being the first removed one
\* when count >= 1; on an empty queue it returns None and changes nothing.
C9_Take ==
    call.op = "take" =>
        LET n == Min(call.count, Len(old.items))
            removed == SubSeq(old.items, 1, n) IN
        /\ Self = Queue(Drain(old.items, n), old.expected_write_id)
        /\ IF old.items = <<>>
           THEN ret = None /\ Self = old
           ELSE /\ ret.kind = "Some"
                /\ ret.value.tick_id = old.items[1].tick_id
                /\ call.count >= 1 => ret.value.tick_id = removed[1].tick_id
                /\ ret.value.items = FirstItems(removed, n)

C9_Witness ==
    /\ call.op = "take"
    /\ call.count > Len(old.items)
    /\ Len(old.items) >= 2
    /\ ret.kind = "Some"
    /\ Len(ret.value.items) = Len(old.items)

---------------------------------------------------------------------------
(* C10 *)

\* C10: discard_count(count) removes exactly min(count, len) entries, all
\* from the front, and keeps the other len - min(count, len) entries
\* unchanged and in order; when count >= len the queue becomes empty and
\* expected_write_id is unchanged.
C10_DiscardCount ==
    call.op = "discard_count" =>
        LET n == Min(call.count, Len(old.items)) IN
        /\ Len(items) = Len(old.items) - n
        /\ \A i \in 1..Len(items) : items[i] = old.items[i + n]
        /\ call.count >= Len(old.items) =>
             items = <<>> /\ expected_write_id = old.expected_write_id

C10_Witness ==
    /\ call.op = "discard_count"
    /\ call.count = 2
    /\ Len(old.items) = 3
    /\ Len(items) = 1

---------------------------------------------------------------------------
(* C11 *)

\* C11: clear(t) leaves the queue empty with expected_write_id = t, and
\* across every operation that is not a clear (push, pop, take, the
\* discards, any inspection) expected_write_id stays the same or increases
\* by exactly 1.
\* Violated: new(u32::MAX), push(u32::MAX, a) in a build without overflow
\* checks moves expected_write_id from u32::MAX back to 0.
C11_OnlyClearRewinds ==
    /\ call.op = "clear" => items = <<>> /\ expected_write_id = call.tick_id
    /\ call.op \notin {"clear", "new"} =>
         \/ expected_write_id = old.expected_write_id
         \/ IsNext(old.expected_write_id, expected_write_id)

---------------------------------------------------------------------------
(* C12 *)

\* C12 (idempotent emptiness): discard_up_to(t) and discard_count(n) on an
\* empty queue, and discard_count(n) with n >= len on a non-empty one,
\* complete without error, leave the queue empty and leave
\* expected_write_id unchanged.
C12_IdempotentEmptiness ==
    (\/ call.op = "discard_up_to" /\ old.items = <<>>
     \/ call.op = "discard_count" /\ call.count >= Len(old.items)) =>
        /\ ~panicked
        /\ ret = None
        /\ items = <<>>
        /\ expected_write_id = old.expected_write_id

C12_Witness ==
    /\ call.op = "discard_up_to"
    /\ old.items = <<>>
    /\ pushes >= 1
    /\ TickLt(expected_write_id, call.tick_id)

---------------------------------------------------------------------------
(* C13 *)

\* C13 (discard_up_to is idempotent): directly after discard_up_to(t), a
\* second discard_up_to(t') with t' <= t leaves the stored entries and
\* expected_write_id exactly as they were.
C13_DiscardUpToIdempotent ==
    call.op = "discard_up_to" =>
        \A t \in Ticks :
            ~TickLt(call.tick_id, t) => discard_up_to(Self, t) = Self

C13_Witness ==
    /\ call.op = "discard_up_to"
    /\ Len(old.items) > Len(items)
    /\ items # <<>>
    /\ TickLt(TickZero, call.tick_id)

---------------------------------------------------------------------------
(* C14 *)

\* C14 (push failure is recoverable): after push(t, v) fails with
\* WrongTickId{expected: e, ..}, a push(e, v') that follows directly
\* succeeds, and leaves the state that push(e, v') would have left had the
\* failed push never been made.
\* Violated: new(u32::MAX), push(0, a) fails with expected u32::MAX, and
\* push(u32::MAX, b) then panics in a build with overflow checks.
C14_PushRecoverable ==
    (call.op = "push" /\ ret.kind = "Err") =>
        \A v \in Values :
            LET retry == push(Self, ret.expected, v, overflow_checks)
                direct == push(old, ret.expected, v, overflow_checks) IN
            /\ retry.ret.kind = "Ok"
            /\ retry.q = direct.q
            /\ retry.ret = direct.ret

---------------------------------------------------------------------------
(* C15 *)

\* C15: iter_index(start_index) yields, in order, exactly the entries at
\* positions start_index .. len - 1 (position 0 is the front) and then
\* ends; it yields nothing when start_index >= len, an empty queue
\* included; creating and exhausting it does not change the queue.
C15_IterIndex ==
    call.op = "iter_index" =>
        LET n == Len(old.items)
            start == call.start_index IN
        /\ Len(ret.value) = n - Min(start, n)
        /\ \A i \in 1..Len(ret.value) : ret.value[i] = old.items[start + i]
        /\ start >= n => ret.value = <<>>
        /\ Self = old

C15_Witness ==
    /\ call.op = "iter_index"
    /\ call.start_index = 1
    /\ Len(old.items) = 3
    /\ Len(ret.value) = 2
    /\ ret.value[1].item # ret.value[2].item

---------------------------------------------------------------------------
(* C16 *)

\* C16: to_vec returns exactly len values, the i-th being the item of the
\* entry at position i, front to back; iter and into_iter yield exactly
\* the stored entries in that same order and then end; to_vec and iter do
\* not change the queue.
C16_ViewsAgree ==
    /\ call.op = "to_vec" =>
         /\ Len(ret.value) = Len(old.items)
         /\ \A i \in 1..Len(old.items) : ret.value[i] = old.items[i].item
         /\ Self = old
    /\ call.op = "iter" => ret.value = old.items /\ Self = old
    /\ call.op = "into_iter" => ret.value = old.items

C16_Witness ==
    /\ call.op = "to_vec"
    /\ Len(old.items) = 3
    /\ ret.value[1] # ret.value[3]

---------------------------------------------------------------------------
(* C17 *)

\* C17 (positional/tick correspondence): in every reachable non-empty
\* state len = expected_write_id - front_tick_id, back_tick_id =
\* front_tick_id + len - 1 and debug_get(i) has tick front_tick_id + i for
\* every i < len; debug_get(i) is None for i >= len; front_tick_id and
\* back_tick_id are None exactly when len = 0.
\* Violated: after new(u32::MAX), push(u32::MAX, a) in a build without
\* overflow checks len is 1, the front tick u32::MAX and expected_write_id 0.
C17_PositionalTicks ==
    Returned =>
        /\ items # <<>> =>
             LET front == front_tick_id(Self).value IN
             /\ IsPlus(front, len(Self), expected_write_tick_id(Self))
             /\ IsPlus(front, len(Self) - 1, back_tick_id(Self).value)
             /\ \A i \in 0..(len(Self) - 1) :
                    /\ debug_get(Self, i) # None
                    /\ IsPlus(front, i, debug_get(Self, i).value.tick_id)
        /\ \A i \in Indexes : i >= len(Self) => debug_get(Self, i) = None
        /\ front_tick_id(Self) = None <=> len(Self) = 0
        /\ back_tick_id(Self) = None <=> len(Self) = 0

---------------------------------------------------------------------------
(* C18 *)

\* C18 (take(0)): on a non-empty queue take(0) returns Some((front tick,
\* empty vector)), not None, and leaves the queue unchanged; the entry
\* with the returned tick is still there and is what the next pop or take
\* returns first.
C18_TakeZero ==
    (call.op = "take" /\ call.count = 0 /\ old.items # <<>>) =>
        /\ ret = Some([tick_id |-> Head(old.items).tick_id, items |-> <<>>])
        /\ Self = old
        /\ pop(Self).ret = Some(Head(old.items))
        /\ pop(Self).ret.value.tick_id = ret.value.tick_id
        /\ \A c \in Counts : take(Self, c).ret.value.tick_id = ret.value.tick_id

C18_Witness ==
    /\ call.op = "take"
    /\ call.count = 0
    /\ Len(old.items) >= 2
    /\ ret.kind = "Some"

---------------------------------------------------------------------------
(* C19 *)

\* C19 (discard_up_to beyond the write position): discard_up_to(t) with
\* t > expected_write_id empties the queue and leaves expected_write_id as
\* it was, so the one tick push accepts next is the old expected_write_id,
\* a tick below t.
\* Violated: with ticks u32::MAX and 0 stored in that order (see C1) and
\* expected_write_id 1, discard_up_to(2) stops at the front entry and
\* removes nothing.
C19_DiscardBeyondWrite ==
    (call.op = "discard_up_to" /\ TickLt(old.expected_write_id, call.tick_id)) =>
        /\ items = <<>>
        /\ expected_write_id = old.expected_write_id
        /\ \A t \in Ticks :
              (push(Self, t, "a", overflow_checks).ret.kind = "Err")
                  <=> (t # old.expected_write_id)
        /\ LET r == push(Self, old.expected_write_id, "a", overflow_checks) IN
           /\ Len(r.q.items) = 1
           /\ TickLt(r.q.items[1].tick_id, call.tick_id)

---------------------------------------------------------------------------
(* C20 *)

\* C20 (no wraparound of the write position): after every successful
\* push(t, v) expected_write_id is strictly greater than t and than every
\* stored tick, t = u32::MAX included.
\* Violated: new(u32::MAX), push(u32::MAX, a) returns Ok in a build without
\* overflow checks and leaves expected_write_id = 0 with tick u32::MAX
\* stored.
C20_NoWraparound ==
    (call.op = "push" /\ ret.kind = "Ok") =>
        /\ TickLt(call.tick_id, expected_write_id)
        /\ \A i \in 1..Len(items) : TickLt(items[i].tick_id, expected_write_id)

====
